---- MODULE Spec2Model ----
(***************************************************************************)
(* Model of scripts/kicad_git_labeler.py: the revision resolver            *)
(* (get_git_info), the JSON and S-expression project updaters, the         *)
(* diagnostic reporter and the CLI driver (main).                          *)
(*                                                                         *)
(* A Python value is a record [t, s, pairs]: a string, None/null, a list,  *)
(* or an object whose members are a sequence of [k, v] records.  A dict is *)
(* such a sequence with unique keys, in insertion order.  The project file *)
(* on disk is a record [kind, layout, top, lines]: what its text starts    *)
(* with and parses as, how it is laid out, the members of its top-level    *)
(* JSON object as written (duplicates included), and its lines when it is  *)
(* an S-expression file.                                                   *)
(***************************************************************************)
EXTENDS Integers, Sequences, FiniteSets, TLC

VARIABLES
    repo,        \* the source-control state git answers from
    committed,   \* content of the project file at HEAD (Absent: untracked)
    file,        \* content of the project file on disk
    before,      \* content of the project file when the last invocation began
    last,        \* arguments and outcome of the last invocation
    tick         \* flips on every invocation

vars == <<repo, committed, file, before, last, tick>>

\* Largest commit count since the tag (or in total, without a tag).
MaxCommits == 3

-----------------------------------------------------------------------------
(* Python / JSON values *)

JStr(s) == [t |-> "str", s |-> s, pairs |-> <<>>]
PyNone == [t |-> "null", s |-> "", pairs |-> <<>>]
JList == [t |-> "list", s |-> "", pairs |-> <<>>]
JObj(members) == [t |-> "obj", s |-> "", pairs |-> members]
Member(k, v) == [k |-> k, v |-> v]

\* key in d
dict_has(d, k) == \E i \in DOMAIN d : d[i].k = k

\* d.get(k): the value, or None when the key is missing
dict_get(d, k) ==
    IF dict_has(d, k) THEN d[CHOOSE i \in DOMAIN d : d[i].k = k].v ELSE PyNone

\* d[k] = v: an existing key keeps its position, a new key goes last
dict_set(d, k, v) ==
    IF dict_has(d, k)
    THEN [i \in DOMAIN d |-> IF d[i].k = k THEN Member(k, v) ELSE d[i]]
    ELSE Append(d, Member(k, v))

-----------------------------------------------------------------------------
(* File contents *)

Text(kind, layout, top, lines) ==
    [kind |-> kind, layout |-> layout, top |-> top, lines |-> lines]

Absent == Text("absent", "", <<>>, <<>>)
JsonDoc(layout, members) == Text("json", layout, members, <<>>)
BadJson == Text("badjson", "hand", <<>>, <<>>)
SexprDoc(lines) == Text("sexpr", "", <<>>, lines)
EmptyFile == SexprDoc(<<>>)
\* what a write that failed after open(..., 'w') truncated the file leaves
PartialJson == Text("badjson", "indent2", <<>>, <<>>)

\* content.strip().startswith('{')
is_json(text) == text.kind \in {"json", "badjson"}

RECURSIVE json_members(_, _)
RECURSIVE json_value(_)
\* json.load of an object: members in order, a repeated key keeps the last value
json_members(members, acc) ==
    IF members = <<>> THEN acc
    ELSE json_members(Tail(members),
                      dict_set(acc, Head(members).k, json_value(Head(members).v)))
json_value(v) == IF v.t = "obj" THEN JObj(json_members(v.pairs, <<>>)) ELSE v

\* json.load(f): the parsed dict, or JSONDecodeError
json_load(text) ==
    IF text.kind = "json"
    THEN [ok |-> TRUE, data |-> json_members(text.top, <<>>)]
    ELSE [ok |-> FALSE, data |-> <<>>]

\* json.dump(data, f, indent=2, ensure_ascii=False); f.write('\n')
json_dump(data) == JsonDoc("indent2", data)

-----------------------------------------------------------------------------
(* The source-control collaborator.  A query either prints its output or    *)
(* exits non-zero (subprocess.CalledProcessError).                          *)

NoTag == ""
Today == "today"

Answer(ok, out) == [ok |-> ok, out |-> out]

\* git describe --tags --abbrev=0: fails outside a repository or without tags
git_describe(r) == Answer(r.isRepo /\ r.tag # NoTag, r.tag)

\* git rev-list <ref>..HEAD --count: fails when <ref> names nothing in the repository
git_rev_list_count(r, ref) ==
    Answer(r.isRepo /\ r.tag # NoTag /\ ref = r.tag, ToString(r.commits))

\* git rev-parse --abbrev-ref HEAD
git_branch(r) == Answer(r.isRepo, r.branch)

\* git log -1 --format=%ci, as whitespace-separated fields: date, time, zone
git_log_date(r) == Answer(r.isRepo, r.ts)

\* git status --porcelain prints something exactly when the tree is dirty
git_status(r, dirty) == Answer(r.isRepo, dirty)

\* The working tree is dirty when another path has uncommitted changes or the
\* project file differs from its committed content.
tree_dirty(r, text, head) == r.otherDirty \/ text # head

\* The broken derivation: the count is appended also on the tag itself.
build_revision_always_count(last_tag, commits_since_tag) ==
    last_tag \o "." \o commits_since_tag

\* revision = last_tag on the tag, last_tag.count after it
build_revision(last_tag, commits_since_tag) ==
    IF commits_since_tag = "0" THEN last_tag
    ELSE last_tag \o "." \o commits_since_tag

\* commit_date.split()[0], or today's date when git printed nothing
build_date(fields) == IF fields = <<>> THEN Today ELSE fields[1]

\* get_git_info(repo_dir): (revision, status, commit_date, branch), or
\* (None, None, None) when a query outside the inner try fails
get_git_info(r, dirty) ==
    LET described == git_describe(r)
        last_tag == IF described.ok THEN described.out ELSE "v0.0.0"
        counted == git_rev_list_count(r, last_tag)
        branch == git_branch(r)
        logged == git_log_date(r)
        status == git_status(r, dirty)
    IN  IF counted.ok /\ branch.ok /\ logged.ok /\ status.ok
        THEN << JStr(build_revision(last_tag, counted.out)),
                JStr(IF status.out THEN "dirty" ELSE "clean"),
                JStr(build_date(logged.out)),
                JStr(branch.out) >>
        ELSE << PyNone, PyNone, PyNone >>

-----------------------------------------------------------------------------
(* The updaters.  Each returns [ret, file, report, info]: "True", "False"   *)
(* or the exception it raises; the file content it leaves; what it printed. *)

Outcome(ret, text, report, info) ==
    [ret |-> ret, file |-> text, report |-> report, info |-> info]

\* "Check if values changed": any of the four entries differs from the fresh value
values_changed(tv, revision, status, date, branch) ==
    \/ dict_get(tv, "VERSION") # revision
    \/ dict_get(tv, "BUILD_DATE") # date
    \/ dict_get(tv, "STATUS") # status
    \/ dict_get(tv, "BRANCH") # branch

\* The broken update: BRANCH is not stored.
set_variables_no_branch(tv, revision, status, date, branch) ==
    dict_set(dict_set(dict_set(tv, "VERSION", revision),
                      "BUILD_DATE", date), "STATUS", status)

\* The broken update: the mapping is rebuilt from the four entries alone.
set_variables_discard(tv, revision, status, date, branch) ==
    << Member("VERSION", revision), Member("BUILD_DATE", date),
       Member("STATUS", status), Member("BRANCH", branch) >>

\* "Update the variables": the four assignments, in order
set_variables(tv, revision, status, date, branch) ==
    dict_set(dict_set(dict_set(dict_set(tv, "VERSION", revision),
                               "BUILD_DATE", date), "STATUS", status),
             "BRANCH", branch)

\* The broken guard: dry_run is ignored.
write_decision_ignore_dry_run(changed, dry_run) ==
    IF ~changed THEN "noop" ELSE "write"

\* what the updater does once the values are compared
write_decision(changed, dry_run) ==
    IF ~changed THEN "noop" ELSE IF dry_run THEN "would" ELSE "write"

\* open(project_file, 'w') and the write: an exception before the file is
\* opened leaves it alone, one after it leaves it empty or cut short
write_file(text, new, io, info) ==
    CASE io = "open_w" -> {Outcome("False", text, "error", info)}
      [] io = "write" -> {Outcome("False", EmptyFile, "error", info),
                          Outcome("False", PartialJson, "error", info)}
      [] OTHER -> {Outcome("True", new, "updated", info)}

\* update_kicad_project_json(project_file, dry_run): the set of its outcomes
update_kicad_project_json(text, r, head, dry_run, io) ==
    LET info == get_git_info(r, tree_dirty(r, text, head))
    IN  IF Len(info) # 4
        THEN {Outcome("ValueError", text, "raise", info)}
        ELSE
        LET revision == info[1]
            status == info[2]
            date == info[3]
            branch == info[4]
            loaded == json_load(text)
        IN  IF revision = PyNone THEN {Outcome("False", text, "error", info)}
            ELSE IF io = "reread" THEN {Outcome("False", text, "error", info)}
            ELSE IF ~loaded.ok THEN {Outcome("False", text, "error", info)}
            ELSE
            LET data == IF dict_has(loaded.data, "text_variables")
                        THEN loaded.data
                        ELSE dict_set(loaded.data, "text_variables", JObj(<<>>))
                tv == dict_get(data, "text_variables")
            IN  IF tv.t # "obj"
                THEN {Outcome("AttributeError", text, "raise", info)}
                ELSE
                LET changed == values_changed(tv.pairs, revision, status, date, branch)
                    updated == dict_set(data, "text_variables",
                                   JObj(set_variables(tv.pairs, revision, status,
                                                      date, branch)))
                    decision == write_decision(changed, dry_run)
                IN  CASE decision = "noop" -> {Outcome("True", text, "noop", info)}
                      [] decision = "would" -> {Outcome("True", text, "would", info)}
                      [] OTHER -> write_file(text, json_dump(updated), io, info)

(* An S-expression file is a sequence of lines, each a record [form, key,   *)
(* val]: the "(kicad_pro ..." header line, a "(text_variables" line, an     *)
(* entry line (KEY "val"), a line that closes a block, or any other line.   *)

Line(form, key, val) == [form |-> form, key |-> key, val |-> val]
HeaderLine == Line("kicad_pro", "", "")
OpenLine == Line("text_variables", "", "")
EntryLine(key, val) == Line("entry", key, val)
CloseLine == Line("close", "", "")
OtherLine(name) == Line("other", name, "")

SubSeqFrom(lines, i) == SubSeq(lines, i, Len(lines))

\* re.sub of (KEY "...") by (KEY "value") when the key is there, else the
\* entry appended as a new last line
set_entry(inner, key, value) ==
    IF \E i \in DOMAIN inner : inner[i].form = "entry" /\ inner[i].key = key
    THEN [i \in DOMAIN inner |->
            IF inner[i].form = "entry" /\ inner[i].key = key
            THEN EntryLine(key, value) ELSE inner[i]]
    ELSE Append(inner, EntryLine(key, value))

\* The block update_kicad_project_sexpr builds when the file has none
text_vars_section(revision, date) ==
    << OpenLine, EntryLine("VERSION", revision), EntryLine("BUILD_DATE", date),
       CloseLine >>

\* the text update_kicad_project_sexpr computes from the file's text
sexpr_content(lines, revision, date) ==
    LET opens == {i \in DOMAIN lines :
                    /\ lines[i].form = "text_variables"
                    /\ \E j \in DOMAIN lines : j > i + 1 /\ lines[j].form = "close"}
        headers == {i \in DOMAIN lines : lines[i].form = "kicad_pro"}
    IN  IF opens # {}
        THEN LET i == CHOOSE x \in opens : \A y \in opens : x <= y
                 j == CHOOSE x \in DOMAIN lines :
                        /\ x > i + 1 /\ lines[x].form = "close"
                        /\ \A y \in DOMAIN lines :
                              (y > i + 1 /\ lines[y].form = "close") => x <= y
                 inner == SubSeq(lines, i + 1, j - 1)
             IN  SubSeq(lines, 1, i - 1)
                 \o <<OpenLine>>
                 \o set_entry(set_entry(inner, "VERSION", revision),
                              "BUILD_DATE", date)
                 \o <<CloseLine>>
                 \o SubSeqFrom(lines, j + 1)
        ELSE IF headers # {}
        THEN LET h == CHOOSE x \in headers : \A y \in headers : x <= y
             IN  SubSeq(lines, 1, h) \o text_vars_section(revision, date)
                 \o SubSeqFrom(lines, h + 1)
        ELSE lines

\* update_kicad_project_sexpr(project_file, dry_run): the set of its outcomes.
\* The three-name unpacking raises on the four values of a successful
\* resolution.
update_kicad_project_sexpr(text, r, head, dry_run, io) ==
    LET info == get_git_info(r, tree_dirty(r, text, head))
    IN  IF Len(info) # 3
        THEN {Outcome("ValueError", text, "raise", info)}
        ELSE
        LET revision == info[1]
            date == info[2]
        IN  IF revision = PyNone THEN {Outcome("False", text, "error", info)}
            ELSE IF io = "reread" THEN {Outcome("False", text, "error", info)}
            ELSE
            LET content == SexprDoc(sexpr_content(text.lines, revision.s, date.s))
                decision == write_decision(content # text, dry_run)
            IN  CASE decision = "noop" -> {Outcome("True", text, "noop", info)}
                  [] decision = "would" -> {Outcome("True", text, "would", info)}
                  [] OTHER -> write_file(text, content, io, info)

\* diagnose_project(project_file): prints, returns nothing, writes nothing
diagnose_project(text, io) == IF io = "read" THEN "error" ELSE "diagnosed"

-----------------------------------------------------------------------------
(* The CLI driver *)

Run(mode, args, ret, report, info, exit) ==
    [mode |-> mode, suffix |-> args.suffix, diagnose |-> args.diagnose,
     dry_run |-> args.dry_run, project_only |-> args.project_only,
     io |-> args.io, ret |-> ret, report |-> report, info |-> info,
     exit |-> exit]

Args(suffix, diagnose, dry_run, project_only, io) ==
    [suffix |-> suffix, diagnose |-> diagnose, dry_run |-> dry_run,
     project_only |-> project_only, io |-> io]

\* what main returns after an updater: 1 when it returned False, else 0; an
\* exception the updater raised leaves main the same way
exit_after(ret) ==
    CASE ret = "True" -> "0"
      [] ret = "False" -> "1"
      [] OTHER -> ret

\* main(): the set of [file, run] it can end with
main(text, r, head, args) ==
    IF text.kind = "absent"
    THEN {[file |-> text, run |-> Run("none", args, "", "error", <<>>, "1")]}
    ELSE IF args.suffix # ".kicad_pro"
    THEN {[file |-> text, run |-> Run("none", args, "", "error", <<>>, "1")]}
    ELSE IF args.diagnose
    THEN {[file |-> text,
           run |-> Run("diagnose", args, "", diagnose_project(text, args.io),
                       <<>>, "0")]}
    ELSE IF args.io = "read"
    THEN {[file |-> text, run |-> Run("none", args, "", "error", <<>>, "1")]}
    ELSE IF is_json(text)
    THEN {[file |-> o.file,
           run |-> Run("json", args, o.ret, o.report, o.info, exit_after(o.ret))] :
          o \in update_kicad_project_json(text, r, head, args.dry_run, args.io)}
    ELSE {[file |-> o.file,
           run |-> Run("sexpr", args, o.ret, o.report, o.info, exit_after(o.ret))] :
          o \in update_kicad_project_sexpr(text, r, head, args.dry_run, args.io)}

-----------------------------------------------------------------------------
(* Inputs *)

Repo(isRepo, tag, commits, branch, ts, otherDirty) ==
    [isRepo |-> isRepo, tag |-> tag, commits |-> commits, branch |-> branch,
     ts |-> ts, otherDirty |-> otherDirty]

Tags == {NoTag, "v1.2.0"}
Branches == {"main", "dev"}
Stamps == { <<"2024-01-15", "10:30:00", "+0100">>,
            <<"2024-02-01", "09:00:00", "+0000">> }
NotARepo == Repo(FALSE, NoTag, 0, "main", <<"2024-01-15", "10:30:00", "+0100">>, FALSE)

\* every repository state the resolver is tried on
AllRepos ==
    {Repo(TRUE, tag, n, b, ts, d) :
        tag \in Tags, n \in 0..MaxCommits, b \in Branches, ts \in Stamps,
        d \in BOOLEAN} \cup {NotARepo}

\* the directories the project tool starts in
StartRepos ==
    {Repo(TRUE, tag, n, "main", <<"2024-01-15", "10:30:00", "+0100">>, d) :
        tag \in Tags, n \in {0, MaxCommits}, d \in BOOLEAN} \cup {NotARepo}

Suffixes == {".kicad_pro", ".kicad_sch"}
IOs == {"ok", "read", "reread", "open_w", "write"}
AllArgs ==
    {Args(suffix, diagnose, dry_run, project_only, io) :
        suffix \in Suffixes, diagnose \in BOOLEAN, dry_run \in BOOLEAN,
        project_only \in BOOLEAN, io \in IOs}

Meta == Member("meta", JStr("board-a"))
Title == Member("TITLE", JStr("amp"))
Variables(version, date, status, branch) ==
    << Member("VERSION", version), Member("BUILD_DATE", date),
       Member("STATUS", status), Member("BRANCH", branch) >>

\* a project file as the tool itself writes it
ToolDoc(version, date, status, branch) ==
    JsonDoc("indent2",
            << Meta, Member("text_variables",
                            JObj(Variables(version, date, status, branch))) >>)

\* what a clean tree of r resolves to, or fixed values when r does not resolve
Fresh(r) ==
    LET i == get_git_info(r, FALSE)
    IN  IF Len(i) = 4 THEN i
        ELSE << JStr("v1.2.0"), JStr("clean"), JStr("2024-01-15"), JStr("main") >>

JsonFiles(r) ==
    LET f == Fresh(r)
    IN  { JsonDoc("hand", <<>>),
          JsonDoc("hand", << Meta, Member("text_variables", JObj(<<Title>>)) >>),
          ToolDoc(f[1], f[3], JStr("clean"), f[4]),
          ToolDoc(f[1], f[3], JStr("dirty"), f[4]),
          JsonDoc("hand",
                  << Member("text_variables",
                            JObj(<<Title>> \o Variables(JStr("v0.9.0"), f[3],
                                                        JStr("clean"), f[4]))),
                     Meta >>),
          JsonDoc("hand",
                  << Meta,
                     Member("text_variables",
                            JObj(<< Member("VERSION", JStr("v0.9.0")), Title,
                                    Member("VERSION", f[1]) >>)),
                     Member("meta", JStr("board-b")) >>) }

OddJsonFiles ==
    { JsonDoc("hand", << Meta, Member("text_variables", PyNone) >>),
      JsonDoc("hand", << Member("text_variables", JStr("none")) >>),
      JsonDoc("hand", << Member("text_variables", JList), Meta >>),
      BadJson }

SexprFiles ==
    { SexprDoc(<< HeaderLine, OtherLine("board"), CloseLine >>),
      SexprDoc(<< HeaderLine, OpenLine, EntryLine("VERSION", "v0.9.0"),
                  EntryLine("TITLE", "amp"), CloseLine, CloseLine >>),
      EmptyFile }

ProjectFiles(r) == JsonFiles(r) \cup OddJsonFiles \cup SexprFiles \cup {Absent}

NoRun == Run("init", Args("", FALSE, FALSE, FALSE, "ok"), "", "", <<>>, "")

-----------------------------------------------------------------------------
(* The project tool, run any number of times on a project file that starts  *)
(* as committed, in a directory whose other files are edited between runs.  *)

Init ==
    /\ repo \in StartRepos
    /\ file \in ProjectFiles(repo)
    /\ committed = file
    /\ before = file
    /\ last = NoRun
    /\ tick = FALSE

\* one invocation of the tool with the given arguments
InvokeWith(args) ==
    \E o \in main(file, repo, committed, args) :
        /\ file' = o.file
        /\ before' = file
        /\ last' = o.run
        /\ tick' = ~tick
        /\ UNCHANGED <<repo, committed>>

Invoke == \E args \in AllArgs : InvokeWith(args)

\* another path of the working tree is edited, or its edit reverted
EditOther ==
    /\ repo.isRepo
    /\ repo' = [repo EXCEPT !.otherDirty = ~@]
    /\ UNCHANGED <<committed, file, before, last, tick>>

Next == Invoke \/ EditOther

Spec == Init /\ [][Next]_vars

-----------------------------------------------------------------------------
(* The resolver alone, on every repository state *)

ResolveInit ==
    /\ repo \in AllRepos
    /\ file = JsonDoc("hand", <<>>)
    /\ committed = file
    /\ before = file
    /\ last = NoRun
    /\ tick = FALSE

Resolve ==
    /\ last' = Run("resolve", Args("", FALSE, FALSE, FALSE, "ok"), "", "",
                   get_git_info(repo, tree_dirty(repo, file, committed)), "")
    /\ tick' = ~tick
    /\ UNCHANGED <<repo, committed, file, before>>

ResolveSpec == ResolveInit /\ [][Resolve]_vars

-----------------------------------------------------------------------------
(* The updater run again and again on a JSON project file of a repository   *)
(* that resolves, where nothing but the tool's own write touches the tree.  *)

SettleInit ==
    /\ repo \in StartRepos
    /\ repo.isRepo /\ repo.tag # NoTag
    /\ file \in JsonFiles(repo)
    /\ committed = file
    /\ before = file
    /\ last = NoRun
    /\ tick = FALSE

Update ==
    \E project_only \in BOOLEAN :
        InvokeWith(Args(".kicad_pro", FALSE, FALSE, project_only, "ok"))

\* the tool is invoked once more: every step of Update is such a step, and
\* Update can always be taken
RunAgain == tick' = ~tick

SettleSpec == SettleInit /\ [][Update]_vars /\ WF_tick(RunAgain)

-----------------------------------------------------------------------------
(* Claims *)

Updater(run) == run.mode \in {"json", "sexpr"}
Resolved(run) == Len(run.info) = 4
Keys(d) == {d[i].k : i \in DOMAIN d}
VariableKeys == {"VERSION", "BUILD_DATE", "STATUS", "BRANCH"}

\* C1: a non-dry-run update that follows a completed non-dry-run update, with
\* the resolved source-control values unchanged and the file readable,
\* reports "No changes needed" and leaves the file as it was.
C1_Idempotent ==
    [][ ( /\ tick' # tick
          /\ Updater(last) /\ ~last.dry_run /\ last.ret = "True"
          /\ Updater(last') /\ ~last'.dry_run /\ last'.io \notin {"read", "reread"}
          /\ last'.info = last.info )
        => (last'.report = "noop" /\ last'.ret = "True" /\ file' = file) ]_vars

\* a run that found nothing to change in a file the tool had written earlier
C1_Witness ==
    /\ last.mode = "json" /\ ~last.dry_run /\ last.report = "noop"
    /\ file # committed /\ file.layout = "indent2"

\* C2: an invocation with --dry-run or --diagnose leaves the file's content
\* as it was, however it ends.
C2_NonMutating ==
    (last.mode # "init" /\ (last.dry_run \/ last.diagnose)) => file = before

\* a dry run that found values to change
C2_Witness == last.dry_run /\ last.report = "would" /\ file = before

\* C3: main returns 0 exactly when the run ended in an update or a no-op,
\* returns 1 when the path is missing, the suffix is wrong, the file cannot be
\* read or is malformed JSON, and has written nothing whenever it returns 1.
C3_ExitCodes ==
    last.mode # "init" =>
        /\ last.exit = "0" <=> last.report \in {"updated", "noop", "would", "diagnosed"}
        /\ ( \/ before.kind = "absent"
             \/ last.suffix # ".kicad_pro"
             \/ last.io = "read"
             \/ (before.kind = "badjson" /\ ~last.diagnose) ) => last.exit = "1"
        /\ last.exit = "1" => file = before

\* C4: after a JSON update that wrote the file, the parsed file holds the four
\* resolved values, and every other top-level key and every other entry of
\* text_variables is as it was.
C4_RoundTrip ==
    (last.mode = "json" /\ last.report = "updated") =>
        LET old == json_load(before).data
            new == json_load(file)
            oldtv == IF dict_has(old, "text_variables")
                     THEN dict_get(old, "text_variables").pairs ELSE <<>>
            newtv == dict_get(new.data, "text_variables")
        IN  /\ new.ok
            /\ newtv.t = "obj"
            /\ dict_get(newtv.pairs, "VERSION") = last.info[1]
            /\ dict_get(newtv.pairs, "STATUS") = last.info[2]
            /\ dict_get(newtv.pairs, "BUILD_DATE") = last.info[3]
            /\ dict_get(newtv.pairs, "BRANCH") = last.info[4]
            /\ Keys(new.data) = Keys(old) \cup {"text_variables"}
            /\ \A k \in Keys(old) \ {"text_variables"} :
                  dict_get(new.data, k) = dict_get(old, k)
            /\ Keys(newtv.pairs) = Keys(oldtv) \cup VariableKeys
            /\ \A k \in Keys(oldtv) \ VariableKeys :
                  dict_get(newtv.pairs, k) = dict_get(oldtv, k)

\* an update written to a file that held an unrelated key and an unrelated entry
C4_Witness ==
    /\ last.mode = "json" /\ last.report = "updated"
    /\ dict_has(json_load(before).data, "meta")
    /\ dict_has(dict_get(json_load(before).data, "text_variables").pairs, "TITLE")
    /\ dict_get(dict_get(json_load(before).data, "text_variables").pairs, "VERSION")
         # last.info[1]

\* C5: when the resolution fails, the updater returns False, the file is not
\* written and main returns 1.
C5_ResolutionFailure ==
    (Updater(last) /\ ~Resolved(last)) =>
        (last.ret = "False" /\ last.exit = "1" /\ file = before)

\* C6: a non-dry-run update of an S-expression file with a header line and no
\* text_variables block, with every query succeeding, leaves the block right
\* after the header with the resolved VERSION and BUILD_DATE, and main returns 0.
C6_InsertionFallback ==
    ( /\ last.mode = "sexpr" /\ ~last.dry_run /\ last.io = "ok"
      /\ Resolved(last)
      /\ before.lines # <<>> /\ before.lines[1] = HeaderLine
      /\ \A i \in DOMAIN before.lines : before.lines[i].form # "text_variables" )
    => /\ file = SexprDoc(<<HeaderLine>>
                          \o text_vars_section(last.info[1].s, last.info[3].s)
                          \o Tail(before.lines))
       /\ last.exit = "0"

\* C7: a repository without tags resolves to v0.0.0 combined with the number
\* of commits reachable from HEAD.
C7_TagAbsence ==
    (last.mode = "resolve" /\ repo.isRepo /\ repo.tag = NoTag /\ repo.commits > 0) =>
        /\ Resolved(last)
        /\ last.info[1] = JStr("v0.0.0." \o ToString(repo.commits))

\* C8: when every query succeeds, the revision is the tag on the tag and
\* tag.count after it, the status is dirty exactly when the tree has
\* uncommitted changes, the branch is the current branch, and the date is the
\* date part of the last commit's timestamp.
C8_VersionDerivation ==
    ( /\ last.mode = "resolve"
      /\ git_describe(repo).ok /\ git_rev_list_count(repo, repo.tag).ok
      /\ git_branch(repo).ok /\ git_log_date(repo).ok
      /\ git_status(repo, repo.otherDirty).ok ) =>
        /\ last.info =
             << JStr(IF repo.commits = 0 THEN repo.tag
                     ELSE repo.tag \o "." \o ToString(repo.commits)),
                JStr(IF repo.otherDirty THEN "dirty" ELSE "clean"),
                JStr(Head(repo.ts)),
                JStr(repo.branch) >>
        /\ ( repo = Repo(TRUE, "v1.2.0", 3, "main",
                         <<"2024-01-15", "10:30:00", "+0100">>, FALSE)
             => last.info = << JStr("v1.2.0.3"), JStr("clean"),
                               JStr("2024-01-15"), JStr("main") >> )

\* the spec's example, resolved
C8_Witness ==
    /\ last.mode = "resolve"
    /\ repo = Repo(TRUE, "v1.2.0", 3, "main", <<"2024-01-15", "10:30:00", "+0100">>, FALSE)
    /\ last.info[1] = JStr("v1.2.0.3")

\* C9: repeated non-dry-run updates reach a run that reports "No changes
\* needed" and writes nothing, and every later run does the same.
C9_Settles == <>[](last.report = "noop" /\ file = before)

\* C10: on a file that parses as JSON, update_kicad_project_json returns True
\* or False, and has not written the file when it returns False.
C10_ReportedOutcome ==
    (last.mode = "json" /\ before.kind = "json") =>
        /\ last.ret \in {"True", "False"}
        /\ last.ret = "False" => file = before

====
